---------------------------- MODULE Spec2Model ----------------------------
(***************************************************************************)
(* Model of the RoboCOIN visualizer's asset-preparation scripts:           *)
(*   scripts/consolidate_metadata.py  (the Aggregator)                     *)
(*   scripts/opti_init.py             (the Freshness Checker and the       *)
(*                                     orchestrator)                       *)
(*   scripts/generate_thumbnails.py   (the thumbnail generator)            *)
(* with the operations of scripts/dataset_generator.py and                 *)
(* scripts/test.py that change the files these read.                       *)
(* The state is the part of the filesystem the scripts read and write,     *)
(* plus the observable outcome of the most recent operation.               *)
(*                                                                         *)
(* Nine specifications share the state:                                    *)
(*   Spec       the aggregator and its input directory                     *)
(*   SpecFresh  check_consolidated_json, the aggregator and the clock      *)
(*   SpecGz     the aggregator when the .gz cannot be written              *)
(*   SpecThumb  check_thumbnails and the two directories it reads          *)
(*   SpecOrch   opti_init.py's main, the files it checks and the host      *)
(*   SpecPool   generate_all_thumbnails task by task on its worker pool    *)
(*   SpecHang   the same when an ffmpeg call may never return              *)
(*   SpecStem   the generator over videos that share a stem                *)
(*   SpecGen    dataset_generator.py: its prompts and its generation loop  *)
(***************************************************************************)
EXTENDS Integers, Sequences, FiniteSets, TLC

\* Largest value of the filesystem clock the model explores.
MaxTime == 2

\* Largest value of the clock in the orchestrator's specification.
OrchMaxTime == 1

\* The --workers argument of generate_thumbnails.py in the runs explored.
max_workers == 2

(***************************************************************************)
(* Names.  A file name is a stem and an extension (pathlib's Path.stem and *)
(* Path.suffix).                                                           *)
(***************************************************************************)
File(s, e) == [stem |-> s, ext |-> e]

\* The record files the environment may create in docs/assets/dataset_info.
\* a.yml / a.yaml share a stem; a.yml / b.yml share an extension.
RecordFiles == {File("a", "yml"), File("b", "yml"), File("a", "yaml")}

\* What a record file may hold: a document that raises in yaml.safe_load,
\* an empty document (safe_load returns None), or one of two payloads.
YamlTexts == {"bad", "empty", "doc1", "doc2"}

VARIABLES
    dirExists,   \* docs/assets/dataset_info exists
    yamlDir,     \* the record files in it: name -> [text, mtime]
    agg,         \* consolidated_datasets.json: [exists, bytes, mtime]
    gz,          \* consolidated_datasets.json.gz: [exists, bytes]
    now,         \* the filesystem clock (st_mtime of a file written now)
    last,        \* observable outcome of the most recent operation
    thumbsDir,   \* docs/assets/thumbnails: [exists, files]
    videosDir,   \* docs/assets/videos: [exists, files]
    thumbCheck,  \* what the most recent check_thumbnails returned
    orch,        \* what the most recent run of opti_init.py did and returned
    project,     \* the project root and the host: [docs, yaml, ffmpeg]
    pool,        \* a run of generate_all_thumbnails, task by task
    gen          \* a run of dataset_generator.py, prompt by prompt

aggVars == <<dirExists, yamlDir, agg, gz, now, last>>
thumbVars == <<thumbsDir, videosDir, thumbCheck>>
orchVars == <<orch, project, pool>>
vars == <<dirExists, yamlDir, agg, gz, now, last, thumbsDir, videosDir, thumbCheck,
          orch, project, pool, gen>>

-----------------------------------------------------------------------------
(***************************************************************************)
(* Pure helpers                                                            *)
(***************************************************************************)

\* Python's None.
None == "None"

\* All orders in which a directory scan may return the set S.
Orders(S) ==
    {o \in [1..Cardinality(S) -> S] : \A i, j \in 1..Cardinality(S) : o[i] = o[j] => i = j}

\* Path.glob("*.<e>") on a directory listing: the names with that extension.
Glob(files, e) == {f \in files : f.ext = e}

\* Path.stem
Stem(f) == f.stem

\* yaml.safe_load: the parsed document; "raise" stands for a YAMLError.
SafeLoad(text) ==
    CASE text = "bad"   -> "raise"
      [] text = "empty" -> None
      [] text = "doc1"  -> "data1"
      [] text = "doc2"  -> "data2"

\* load_yaml_file: the data, or None when parsing raised.
LoadYamlFile(text) ==
    IF SafeLoad(text) = "raise" THEN None ELSE SafeLoad(text)

\* A Python dict is a sequence of [k, v] with distinct keys, in insertion order.
DictKeys(d) == {d[i].k : i \in 1..Len(d)}

\* d[key] = value : an existing key keeps its position, a new key is appended.
DictSet(d, key, value) ==
    IF key \in DictKeys(d)
    THEN [i \in 1..Len(d) |-> IF d[i].k = key THEN [k |-> key, v |-> value] ELSE d[i]]
    ELSE Append(d, [k |-> key, v |-> value])

\* Mutant of LoadStep: a failed load is not counted.
LoadStepNoCount(acc, f) ==
    LET key == Stem(f)
        data == LoadYamlFile(yamlDir[f].text)
    IN  IF data # None
        THEN [consolidated |-> DictSet(acc.consolidated, key, data),
              failed_count |-> acc.failed_count]
        ELSE acc

\* Mutant of LoadStep: a failed load is merged as a null entry.
LoadStepMergeNull(acc, f) ==
    [consolidated |-> DictSet(acc.consolidated, Stem(f), LoadYamlFile(yamlDir[f].text)),
     failed_count |-> acc.failed_count]

\* Mutant of LoadStep: a failed load is counted and also stored.
LoadStepNullEntry(acc, f) ==
    LET key == Stem(f)
        data == LoadYamlFile(yamlDir[f].text)
    IN  [consolidated |-> DictSet(acc.consolidated, key, data),
         failed_count |-> IF data # None THEN acc.failed_count
                          ELSE acc.failed_count + 1]

\* One iteration of the loading loop over the accumulator (the dict and the
\* failure count).
LoadStep(acc, f) ==
    LET key == Stem(f)
        data == LoadYamlFile(yamlDir[f].text)
    IN  IF data # None
        THEN [consolidated |-> DictSet(acc.consolidated, key, data),
              failed_count |-> acc.failed_count]
        ELSE [consolidated |-> acc.consolidated,
              failed_count |-> acc.failed_count + 1]

\* Mutant of LoadAll: the loop stops one file early.
RECURSIVE LoadAllStopsEarly(_, _, _)
LoadAllStopsEarly(all_files, i, acc) ==
    IF i >= Len(all_files) THEN acc
    ELSE LoadAllStopsEarly(all_files, i + 1, LoadStep(acc, all_files[i]))

\* for i, file_path in enumerate(all_files, 1): ...
RECURSIVE LoadAll(_, _, _)
LoadAll(all_files, i, acc) ==
    IF i > Len(all_files) THEN acc
    ELSE LoadAll(all_files, i + 1, LoadStep(acc, all_files[i]))

\* json.dump(consolidated, separators=(',', ':')): the encoded text, as tokens.
RECURSIVE JsonItems(_, _)
JsonItems(d, i) ==
    IF i > Len(d) THEN <<>>
    ELSE (IF i > 1 THEN <<",">> ELSE <<>>) \o <<d[i].k, ":", d[i].v>> \o JsonItems(d, i + 1)

JsonDump(d) == <<"{">> \o JsonItems(d, 1) \o <<"}">>

\* The thumbnails the environment may hold in docs/assets/thumbnails (one
\* file is not a .jpg), and the videos in docs/assets/videos (one is not an
\* .mp4).
ThumbFiles ==
    {File("a", "jpg"), File("b", "jpg"), File("c", "jpg"), File("d", "jpg"),
     File("a", "png")}

VideoFiles ==
    {File("a", "mp4"), File("b", "mp4"), File("c", "mp4"), File("d", "webm")}

NoDir == [exists |-> FALSE, files |-> {}]

\* thumbCheck when the most recent operation was not a call of check_thumbnails.
NoCheck == [exists |-> FALSE, status |-> "-", issues |-> <<>>]

NoFile == [exists |-> FALSE, bytes |-> <<>>, mtime |-> 0]
NoGz == [exists |-> FALSE, bytes |-> <<>>]

\* The outcome record when the most recent operation was not a script run.
EnvOp ==
    [op |-> "env", exit |-> 0, found |-> 0, loaded |-> 0, failed |-> 0,
     gzip |-> "-", exists |-> FALSE, status |-> "-"]

\* orch when the most recent operation was not a run of opti_init.py.
NoRun ==
    [op |-> "-", force |-> FALSE, check_only |-> FALSE,
     skip_consolidation |-> FALSE, skip_thumbnails |-> FALSE,
     json_status |-> "-", thumb_status |-> "-", missing_count |-> 0,
     consolidation |-> "-", thumbnails |-> "-", written |-> {}, pip |-> "-",
     verified |-> "-", exit |-> 0]

\* pool when no run of generate_all_thumbnails is under way.
NoPool ==
    [pc |-> "idle", tasks |-> {}, task |-> <<>>, collected |-> {},
     successful |-> 0, failed |-> 0, exit |-> 0]

\* gen when dataset_generator.py has not been run.
NoGen ==
    [pc |-> "idle", num_datasets |-> 0, max_depth |-> 0, rejected |-> FALSE,
     i |-> 0, count |-> 0, index |-> <<>>,
     ret |-> [none |-> FALSE, size |-> 0],
     written |-> FALSE, data_index |-> <<>>]

\* Every operation but a run of opti_init.py leaves the host alone, and is
\* then the most recent operation.
NoOrch ==
    /\ orch' = NoRun
    /\ UNCHANGED <<project, pool, gen>>

-----------------------------------------------------------------------------
(***************************************************************************)
(* consolidate_metadata.py                                                 *)
(***************************************************************************)

\* sys.exit(1) before anything is written.
ExitEarly ==
    /\ last' = [op |-> "consolidate", exit |-> 1, found |-> 0, loaded |-> 0,
                failed |-> 0, gzip |-> "-", exists |-> FALSE, status |-> "-"]
    /\ UNCHANGED <<dirExists, yamlDir, agg, gz, now>>

\* What writing the .gz sibling may do: succeed, or raise OSError from
\* gzip.open (nothing is created) or from f_out.write (the file is left
\* truncated).
GzWrites == {"ok", "open-fails", "write-fails"}

\* The load loop and the save: consolidated_datasets.json is rewritten, and
\* then, when compress is set, the .gz sibling.  Nothing catches an
\* exception of the .gz write: the interpreter prints the traceback and
\* exits with status 1.  Otherwise the run ends normally (exit 0).
WriteAggregate(all_files, compress, gzWrite) ==
    LET r == LoadAll(all_files, 1, [consolidated |-> <<>>, failed_count |-> 0])
        text == JsonDump(r.consolidated)
    IN  /\ agg' = [exists |-> TRUE, bytes |-> text, mtime |-> now]
        /\ gz' = IF ~compress \/ gzWrite = "open-fails" THEN gz
                 ELSE IF gzWrite = "write-fails" THEN [exists |-> TRUE, bytes |-> <<>>]
                 ELSE [exists |-> TRUE, bytes |-> text]
        /\ last' = [op |-> "consolidate",
                    exit |-> IF compress /\ gzWrite # "ok" THEN 1 ELSE 0,
                    found |-> Len(all_files),
                    loaded |-> Len(r.consolidated), failed |-> r.failed_count,
                    gzip |-> IF ~compress THEN "-"
                             ELSE IF gzWrite = "ok" THEN "written" ELSE "failed",
                    exists |-> FALSE, status |-> "-"]
        /\ UNCHANGED <<dirExists, yamlDir, now>>

\* Mutant of ConsolidateFiles: the zero-files check is missing.
ConsolidateFilesNoCheck(all_files, compress, gzWrite) ==
    WriteAggregate(all_files, compress, gzWrite)

\* The body of consolidate_metadata after the directory scan.
ConsolidateFiles(all_files, compress, gzWrite) ==
    IF Len(all_files) = 0
    THEN ExitEarly
    ELSE WriteAggregate(all_files, compress, gzWrite)

\* Mutant of consolidate_metadata: the .yaml files are enumerated first.
consolidate_metadata_yaml_first(ymlOrder, yamlOrder, compress, gzWrite) ==
    IF ~dirExists
    THEN ExitEarly
    ELSE ConsolidateFiles(yamlOrder \o ymlOrder, compress, gzWrite)

\* One run of consolidate_metadata(input_dir, output_file, compress) with the
\* default paths; ymlOrder and yamlOrder are the orders the two globs return.
consolidate_metadata(ymlOrder, yamlOrder, compress, gzWrite) ==
    IF ~dirExists
    THEN ExitEarly
    ELSE ConsolidateFiles(ymlOrder \o yamlOrder, compress, gzWrite)

\* The script run on its own.
Consolidate(ymlOrder, yamlOrder, compress, gzWrite) ==
    /\ consolidate_metadata(ymlOrder, yamlOrder, compress, gzWrite)
    /\ UNCHANGED thumbVars
    /\ NoOrch

ConsolidateRun ==
    \E ymlOrder \in Orders(Glob(DOMAIN yamlDir, "yml")),
       yamlOrder \in Orders(Glob(DOMAIN yamlDir, "yaml")),
       compress \in BOOLEAN :
        Consolidate(ymlOrder, yamlOrder, compress, "ok")

\* The run the orchestrator starts: the script with no arguments, so with the
\* default paths and compress = True.
ConsolidateDefault ==
    \E ymlOrder \in Orders(Glob(DOMAIN yamlDir, "yml")),
       yamlOrder \in Orders(Glob(DOMAIN yamlDir, "yaml")) :
        Consolidate(ymlOrder, yamlOrder, TRUE, "ok")

\* A run with the default arguments on a filesystem that refuses the .gz
\* (an unwritable or full directory).
ConsolidateGzFails ==
    \E ymlOrder \in Orders(Glob(DOMAIN yamlDir, "yml")),
       yamlOrder \in Orders(Glob(DOMAIN yamlDir, "yaml")),
       gzWrite \in GzWrites \ {"ok"} :
        Consolidate(ymlOrder, yamlOrder, TRUE, gzWrite)

-----------------------------------------------------------------------------
(***************************************************************************)
(* opti_init.py: check_consolidated_json                                   *)
(***************************************************************************)

Max(S) == CHOOSE x \in S : \A y \in S : y <= x

\* Mutant of check_consolidated_json: a source as old as the aggregate counts
\* as newer (>= for >).
check_consolidated_json_ge(check_freshness) ==
    IF ~agg.exists
    THEN <<FALSE, "missing">>
    ELSE IF check_freshness
         THEN LET yaml_files == Glob(DOMAIN yamlDir, "yml") \cup Glob(DOMAIN yamlDir, "yaml")
              IN  IF yaml_files = {}
                  THEN <<TRUE, "ok">>
                  ELSE IF Max({yamlDir[f].mtime : f \in yaml_files}) >= agg.mtime
                       THEN <<TRUE, "stale">>
                       ELSE <<TRUE, "ok">>
         ELSE <<TRUE, "ok">>

\* check_consolidated_json(docs_dir, check_freshness): <<exists, status>>.
check_consolidated_json(check_freshness) ==
    IF ~agg.exists
    THEN <<FALSE, "missing">>
    ELSE IF check_freshness
         THEN LET yaml_files == Glob(DOMAIN yamlDir, "yml") \cup Glob(DOMAIN yamlDir, "yaml")
              IN  IF yaml_files = {}
                  THEN <<TRUE, "ok">>
                  ELSE IF Max({yamlDir[f].mtime : f \in yaml_files}) > agg.mtime
                       THEN <<TRUE, "stale">>
                       ELSE <<TRUE, "ok">>
         ELSE <<TRUE, "ok">>

\* A call of check_consolidated_json, as run_consolidation and main make it.
CheckJson(check_freshness) ==
    /\ last' = [op |-> "check_json", exit |-> 0, found |-> 0, loaded |-> 0, failed |-> 0,
                gzip |-> "-",
                exists |-> check_consolidated_json(check_freshness)[1],
                status |-> check_consolidated_json(check_freshness)[2]]
    /\ UNCHANGED <<dirExists, yamlDir, agg, gz, now>>
    /\ UNCHANGED thumbVars
    /\ NoOrch

\* run_consolidation and main both pass check_freshness=True; nothing in the
\* program passes False.
CheckJsonCall == CheckJson(TRUE)

-----------------------------------------------------------------------------
(***************************************************************************)
(* The environment: whoever edits the record files between runs.           *)
(***************************************************************************)

\* A record file is created or rewritten (or touched: the same text again).
WriteRecord(f, text) ==
    /\ dirExists
    /\ yamlDir' = [g \in DOMAIN yamlDir \cup {f} |->
                      IF g = f THEN [text |-> text, mtime |-> now] ELSE yamlDir[g]]
    /\ last' = EnvOp
    /\ UNCHANGED <<dirExists, agg, gz, now>>
    /\ UNCHANGED thumbVars
    /\ NoOrch

DeleteRecord(f) ==
    /\ f \in DOMAIN yamlDir
    /\ yamlDir' = [g \in DOMAIN yamlDir \ {f} |-> yamlDir[g]]
    /\ last' = EnvOp
    /\ UNCHANGED <<dirExists, agg, gz, now>>
    /\ UNCHANGED thumbVars
    /\ NoOrch

\* docs/assets/dataset_info is removed with everything in it (the aggregate's
\* default path lies inside it), or created again.
RemoveDir ==
    /\ dirExists
    /\ dirExists' = FALSE
    /\ yamlDir' = <<>>
    /\ agg' = NoFile
    /\ gz' = NoGz
    /\ last' = EnvOp
    /\ UNCHANGED now
    /\ UNCHANGED thumbVars
    /\ NoOrch

MakeDir ==
    /\ project.docs
    /\ ~dirExists
    /\ dirExists' = TRUE
    /\ last' = EnvOp
    /\ UNCHANGED <<yamlDir, agg, gz, now>>
    /\ UNCHANGED thumbVars
    /\ NoOrch

\* scripts/test.py: delete consolidated_datasets.json and the thumbnails folder.
Cleanup ==
    /\ agg' = NoFile
    /\ thumbsDir' = NoDir
    /\ last' = EnvOp
    /\ thumbCheck' = NoCheck
    /\ UNCHANGED <<dirExists, yamlDir, gz, now, videosDir>>
    /\ NoOrch

\* The filesystem clock advances.
Tick ==
    /\ now < MaxTime
    /\ now' = now + 1
    /\ UNCHANGED <<dirExists, yamlDir, agg, gz, last>>
    /\ UNCHANGED thumbVars
    /\ UNCHANGED orchVars
    /\ UNCHANGED gen

-----------------------------------------------------------------------------
(***************************************************************************)
(* opti_init.py: check_thumbnails                                          *)
(***************************************************************************)

\* The issues dict: a key is present only when its list is not empty.
Issues(missing, orphaned) ==
    [key \in (IF missing # {} THEN {"missing_thumbnails"} ELSE {})
                \cup (IF orphaned # {} THEN {"orphaned_thumbnails"} ELSE {}) |->
        IF key = "missing_thumbnails" THEN missing ELSE orphaned]

\* Mutant of Correspondence: the orphaned set is computed with the operands
\* of the missing set.
CorrespondenceSwapped(thumbnail_files, video_files) ==
    LET thumbnail_names == {Stem(f) : f \in thumbnail_files}
        video_names == {Stem(f) : f \in video_files}
        missing == video_names \ thumbnail_names
        orphaned == video_names \ thumbnail_names
        issues == Issues(missing, orphaned)
    IN  IF DOMAIN issues = {}
        THEN [exists |-> TRUE, status |-> "ok", issues |-> <<>>]
        ELSE [exists |-> TRUE, status |-> "incomplete", issues |-> issues]

\* The correspondence check of check_thumbnails, from the two listings.
Correspondence(thumbnail_files, video_files) ==
    LET thumbnail_names == {Stem(f) : f \in thumbnail_files}
        video_names == {Stem(f) : f \in video_files}
        missing == video_names \ thumbnail_names
        orphaned == thumbnail_names \ video_names
        issues == Issues(missing, orphaned)
    IN  IF DOMAIN issues = {}
        THEN [exists |-> TRUE, status |-> "ok", issues |-> <<>>]
        ELSE [exists |-> TRUE, status |-> "incomplete", issues |-> issues]

\* Mutant of check_thumbnails: the early return for a directory without
\* .jpg files is missing.
check_thumbnails_no_empty(check_correspondence) ==
    IF ~thumbsDir.exists
    THEN [exists |-> FALSE, status |-> "missing", issues |-> <<>>]
    ELSE IF check_correspondence /\ videosDir.exists
         THEN Correspondence(Glob(thumbsDir.files, "jpg"), Glob(videosDir.files, "mp4"))
         ELSE [exists |-> TRUE, status |-> "ok", issues |-> <<>>]

\* Mutant of check_thumbnails: the correspondence with the videos is never
\* looked at.
check_thumbnails_no_correspondence(check_correspondence) ==
    IF ~thumbsDir.exists
    THEN [exists |-> FALSE, status |-> "missing", issues |-> <<>>]
    ELSE IF Cardinality(Glob(thumbsDir.files, "jpg")) = 0
         THEN [exists |-> FALSE, status |-> "empty", issues |-> <<>>]
         ELSE [exists |-> TRUE, status |-> "ok", issues |-> <<>>]

\* check_thumbnails(docs_dir, check_correspondence): exists, status, issues.
check_thumbnails(check_correspondence) ==
    IF ~thumbsDir.exists
    THEN [exists |-> FALSE, status |-> "missing", issues |-> <<>>]
    ELSE LET thumbnail_files == Glob(thumbsDir.files, "jpg")
         IN  IF Cardinality(thumbnail_files) = 0
             THEN [exists |-> FALSE, status |-> "empty", issues |-> <<>>]
             ELSE IF check_correspondence /\ videosDir.exists
                  THEN Correspondence(thumbnail_files, Glob(videosDir.files, "mp4"))
                  ELSE [exists |-> TRUE, status |-> "ok", issues |-> <<>>]

\* A call of check_thumbnails; run_thumbnail_generation and main both pass
\* check_correspondence=True.
CheckThumbnailsCall ==
    /\ thumbCheck' = check_thumbnails(TRUE)
    /\ UNCHANGED <<thumbsDir, videosDir>>
    /\ UNCHANGED aggVars
    /\ NoOrch

\* generate_thumbnail creates the output directory before it runs ffmpeg.
MakeThumbsDir ==
    /\ project.docs
    /\ ~thumbsDir.exists
    /\ thumbsDir' = [exists |-> TRUE, files |-> {}]
    /\ thumbCheck' = NoCheck
    /\ UNCHANGED videosDir
    /\ UNCHANGED aggVars
    /\ NoOrch

\* The environment: a file appears in, or disappears from, the thumbnails
\* directory.
AddThumbFile(f) ==
    /\ thumbsDir.exists
    /\ f \notin thumbsDir.files
    /\ thumbsDir' = [thumbsDir EXCEPT !.files = @ \cup {f}]
    /\ thumbCheck' = NoCheck
    /\ UNCHANGED videosDir
    /\ UNCHANGED aggVars
    /\ NoOrch

RemoveThumbFile(f) ==
    /\ f \in thumbsDir.files
    /\ thumbsDir' = [thumbsDir EXCEPT !.files = @ \ {f}]
    /\ thumbCheck' = NoCheck
    /\ UNCHANGED videosDir
    /\ UNCHANGED aggVars
    /\ NoOrch

\* DatasetGenerator.generate creates docs/assets/videos and writes videos
\* into it; dataset_generator's main removes the directory before a
\* regeneration; the environment adds and removes single videos.
MakeVideosDir ==
    /\ project.docs
    /\ ~videosDir.exists
    /\ videosDir' = [exists |-> TRUE, files |-> {}]
    /\ thumbCheck' = NoCheck
    /\ UNCHANGED thumbsDir
    /\ UNCHANGED aggVars
    /\ NoOrch

RemoveVideosDir ==
    /\ videosDir.exists
    /\ videosDir' = NoDir
    /\ thumbCheck' = NoCheck
    /\ UNCHANGED thumbsDir
    /\ UNCHANGED aggVars
    /\ NoOrch

AddVideo(f) ==
    /\ videosDir.exists
    /\ f \notin videosDir.files
    /\ videosDir' = [videosDir EXCEPT !.files = @ \cup {f}]
    /\ thumbCheck' = NoCheck
    /\ UNCHANGED thumbsDir
    /\ UNCHANGED aggVars
    /\ NoOrch

RemoveVideo(f) ==
    /\ f \in videosDir.files
    /\ videosDir' = [videosDir EXCEPT !.files = @ \ {f}]
    /\ thumbCheck' = NoCheck
    /\ UNCHANGED thumbsDir
    /\ UNCHANGED aggVars
    /\ NoOrch

-----------------------------------------------------------------------------
(***************************************************************************)
(* generate_thumbnails.py: one run of generate_all_thumbnails, seen from   *)
(* outside (what it leaves behind and how it exits)                        *)
(***************************************************************************)

\* The four globs of generate_all_thumbnails.
VideoExts == {"mp4", "webm", "avi", "mov"}
VideoGlob(files) == UNION {Glob(files, e) : e \in VideoExts}

\* thumbnail_name = video_file.stem + ".jpg"
ThumbnailName(video_file) == File(video_file.stem, "jpg")

\* What one ffmpeg call of generate_thumbnail may return: 0 with the
\* thumbnail written, or nonzero with nothing written (an exception inside
\* generate_thumbnail is turned into the same False).
ToolResults == {"ok", "nonzero"}

\* Mutant of check_ffmpeg: ffmpeg is taken to be there.
check_ffmpeg_assumed == TRUE

\* check_ffmpeg(): `ffmpeg -version` runs and returns 0.
check_ffmpeg == project.ffmpeg

\* Mutant of generate_all_thumbnails: the output directory is emptied first.
generate_all_thumbnails_clean(result) ==
    LET video_files == VideoGlob(videosDir.files)
        done == {v \in video_files : result[v] = "ok"}
    IN  IF ~videosDir.exists \/ video_files = {} \/ ~check_ffmpeg
        THEN [exit |-> 1, dir |-> thumbsDir, written |-> {},
              successful |-> 0, failed |-> 0]
        ELSE [exit |-> 0,
              dir |-> [exists |-> TRUE,
                       files |-> {ThumbnailName(v) : v \in done}],
              written |-> {ThumbnailName(v) : v \in done},
              successful |-> Cardinality(done),
              failed |-> Cardinality(video_files \ done)]

\* generate_all_thumbnails with the default directories, given what ffmpeg
\* returns for each video: the exit status, the thumbnails directory
\* afterwards, the thumbnails ffmpeg wrote (with -y: created or replaced)
\* and the two totals.  Every video found is a task, whether or not its
\* thumbnail exists already.
generate_all_thumbnails(result) ==
    LET video_files == VideoGlob(videosDir.files)
        done == {v \in video_files : result[v] = "ok"}
    IN  IF ~videosDir.exists \/ video_files = {} \/ ~check_ffmpeg
        THEN [exit |-> 1, dir |-> thumbsDir, written |-> {},
              successful |-> 0, failed |-> 0]
        ELSE [exit |-> 0,
              dir |-> [exists |-> TRUE,
                       files |-> thumbsDir.files \cup {ThumbnailName(v) : v \in done}],
              written |-> {ThumbnailName(v) : v \in done},
              successful |-> Cardinality(done),
              failed |-> Cardinality(video_files \ done)]

-----------------------------------------------------------------------------
(***************************************************************************)
(* generate_thumbnails.py: the same run task by task.  The main thread     *)
(* submits one task per video to a ThreadPoolExecutor, the workers run     *)
(* process_video, and the main thread counts the results in the order in   *)
(* which as_completed hands them over.                                     *)
(***************************************************************************)

\* What a step of the run leaves alone.
PoolFrame ==
    /\ orch' = NoRun /\ last' = EnvOp /\ thumbCheck' = NoCheck
    /\ UNCHANGED <<dirExists, yamlDir, agg, gz, now, videosDir, project, gen>>

\* The run starts: the three checks that end it with sys.exit(1), then the
\* task list and the submission of every task.
PoolStart ==
    /\ pool.pc # "running"
    /\ LET video_files == VideoGlob(videosDir.files)
       IN  pool' = IF ~videosDir.exists \/ video_files = {} \/ ~check_ffmpeg
                   THEN [NoPool EXCEPT !.pc = "exited", !.exit = 1]
                   ELSE [pc |-> "running", tasks |-> video_files,
                         task |-> [v \in video_files |-> "queued"],
                         collected |-> {}, successful |-> 0, failed |-> 0,
                         exit |-> 0]
    /\ UNCHANGED thumbsDir
    /\ PoolFrame

\* A free worker takes a queued task: generate_thumbnail creates the output
\* directory and starts ffmpeg.  A worker is busy while its ffmpeg has not
\* returned.
Running == {v \in pool.tasks : pool.task[v] = "running"}
Busy == {v \in pool.tasks : pool.task[v] \in {"running", "hung"}}

WorkerTakes(v) ==
    /\ pool.pc = "running"
    /\ v \in pool.tasks /\ pool.task[v] = "queued"
    /\ Cardinality(Busy) < max_workers
    /\ pool' = [pool EXCEPT !.task[v] = "running"]
    /\ thumbsDir' = [thumbsDir EXCEPT !.exists = TRUE]
    /\ PoolFrame

\* ffmpeg returns: the thumbnail is written iff the result is 0.
WorkerFinishes(v, result) ==
    /\ pool.pc = "running"
    /\ v \in pool.tasks /\ pool.task[v] = "running"
    /\ pool' = [pool EXCEPT !.task[v] = result]
    /\ thumbsDir' = IF result = "ok"
                    THEN [thumbsDir EXCEPT !.files = @ \cup {ThumbnailName(v)}]
                    ELSE thumbsDir
    /\ PoolFrame

\* ffmpeg does not return on its own (it waits on an input that never
\* ends).  subprocess.run is called without a timeout, here and in
\* opti_init.py, so the worker stays in it: no step of the run ends the wait.
WorkerHangs(v) ==
    /\ pool.pc = "running"
    /\ v \in pool.tasks /\ pool.task[v] = "running"
    /\ pool' = [pool EXCEPT !.task[v] = "hung"]
    /\ UNCHANGED thumbsDir
    /\ PoolFrame

\* Mutant of Collect: a failed task is not counted.
CollectSuccessOnly(v) ==
    /\ pool.pc = "running"
    /\ v \in pool.tasks \ pool.collected
    /\ pool.task[v] \in ToolResults
    /\ pool' = [pool EXCEPT !.collected = @ \cup {v},
                            !.successful = IF pool.task[v] = "ok" THEN @ + 1 ELSE @]
    /\ UNCHANGED thumbsDir
    /\ PoolFrame

\* as_completed yields a finished future and the main thread counts it.
Collect(v) ==
    /\ pool.pc = "running"
    /\ v \in pool.tasks \ pool.collected
    /\ pool.task[v] \in ToolResults
    /\ pool' = [pool EXCEPT !.collected = @ \cup {v},
                            !.successful = IF pool.task[v] = "ok" THEN @ + 1 ELSE @,
                            !.failed = IF pool.task[v] = "ok" THEN @ ELSE @ + 1]
    /\ UNCHANGED thumbsDir
    /\ PoolFrame

\* Every future has been yielded: the loop and the with block end, the
\* totals are printed and the script returns (exit status 0).
PoolEnd ==
    /\ pool.pc = "running"
    /\ pool.collected = pool.tasks
    /\ pool' = [pool EXCEPT !.pc = "exited"]
    /\ UNCHANGED thumbsDir
    /\ PoolFrame

-----------------------------------------------------------------------------
(***************************************************************************)
(* opti_init.py: the orchestrator                                          *)
(***************************************************************************)

\* The command line of opti_init.py.
Args ==
    [force : BOOLEAN, check_only : BOOLEAN,
     skip_consolidation : BOOLEAN, skip_thumbnails : BOOLEAN]

\* check_python_package('yaml')
check_python_package == project.yaml

\* check_dependency('ffmpeg'): `ffmpeg --version` runs and returns 0;
\* versionOk is what an installed ffmpeg answers to that flag.
check_dependency(versionOk) == project.ffmpeg /\ versionOk

\* Mutant of run_consolidation: an up-to-date aggregate is regenerated too.
run_consolidation_no_skip(force, pipOk) ==
    IF ~check_python_package /\ ~pipOk THEN "no-pyyaml" ELSE "run"

\* run_consolidation up to the point where it returns or starts the script:
\* "up-to-date" (return True at once), "no-pyyaml" (return False), "run".
\* A stale aggregate sets force, which is not read again afterwards.
run_consolidation(force, pipOk) ==
    LET exists == check_consolidated_json(TRUE)[1]
        status == check_consolidated_json(TRUE)[2]
    IN  IF exists /\ status = "ok" /\ ~force
        THEN "up-to-date"
        ELSE IF ~check_python_package /\ ~pipOk
             THEN "no-pyyaml"
             ELSE "run"

\* Mutant of run_thumbnail_generation: an incomplete set is never
\* regenerated.
run_thumbnail_generation_skips_incomplete(force, versionOk) ==
    LET r == check_thumbnails(TRUE)
    IN  IF r.exists /\ r.status = "ok" /\ ~force
        THEN "up-to-date"
        ELSE IF r.exists /\ r.status = "incomplete"
             THEN "all-have"
             ELSE IF ~check_dependency(versionOk)
                  THEN "no-ffmpeg"
                  ELSE "run"

\* run_thumbnail_generation up to the point where it returns or starts the
\* script: "up-to-date" and "all-have" (return True at once), "no-ffmpeg"
\* (return False), "run".
run_thumbnail_generation(force, versionOk) ==
    LET r == check_thumbnails(TRUE)
        missing_count ==
            IF "missing_thumbnails" \in DOMAIN r.issues
            THEN Cardinality(r.issues["missing_thumbnails"]) ELSE 0
    IN  IF r.exists /\ r.status = "ok" /\ ~force
        THEN "up-to-date"
        ELSE IF r.exists /\ r.status = "incomplete" /\ ~(missing_count > 0)
             THEN "all-have"
             ELSE IF ~check_dependency(versionOk)
                  THEN "no-ffmpeg"
                  ELSE "run"

\* Mutant of verify_optimizations: the thumbnails are not looked at.
verify_json_only(json, thumbnails) == json.exists

\* Mutant of verify_optimizations: only the thumbnails are looked at.
verify_thumbnails_only(json, thumbnails) ==
    thumbnails.exists /\ Glob(thumbnails.files, "jpg") # {}

\* verify_optimizations, on the files a run leaves behind.
verify_optimizations(json, thumbnails) ==
    /\ json.exists
    /\ thumbnails.exists
    /\ Cardinality(Glob(thumbnails.files, "jpg")) > 0

\* main when docs is missing: sys.exit(1) before any flag is read.
NoDocs(args) ==
    /\ orch' = [NoRun EXCEPT !.op = "main", !.exit = 1]
    /\ last' = EnvOp
    /\ thumbCheck' = NoCheck
    /\ UNCHANGED <<dirExists, yamlDir, agg, gz, now, thumbsDir, videosDir, project, pool, gen>>

\* Mutant of CheckOnly: the check deletes the aggregate it finds stale.
CheckOnlyCleans(args) ==
    /\ orch' = [NoRun EXCEPT !.op = "main", !.check_only = TRUE,
                 !.json_status = check_consolidated_json(TRUE)[2],
                 !.thumb_status = check_thumbnails(TRUE).status]
    /\ agg' = IF check_consolidated_json(TRUE)[2] = "stale" THEN NoFile ELSE agg
    /\ last' = EnvOp
    /\ thumbCheck' = NoCheck
    /\ UNCHANGED <<dirExists, yamlDir, gz, now, thumbsDir, videosDir, project, pool, gen>>

\* main with --check-only: the two checks and the status summary; the
\* other flags are not read.
CheckOnly(args) ==
    LET json_status == check_consolidated_json(TRUE)[2]
        thumb == check_thumbnails(TRUE)
        thumb_status == thumb.status
    IN  /\ orch' = [NoRun EXCEPT !.op = "main",
                     !.check_only = args.check_only,
                     !.json_status = json_status, !.thumb_status = thumb_status,
                     !.missing_count = Cardinality(
                         IF "missing_thumbnails" \in DOMAIN thumb.issues
                         THEN thumb.issues["missing_thumbnails"] ELSE {}),
                     !.exit =
                         IF json_status = "ok" /\ thumb_status = "ok" THEN 0
                         ELSE IF \/ json_status \in {"stale", "incomplete"}
                                 \/ thumb_status \in {"stale", "incomplete"}
                              THEN 0
                              ELSE 1]
        /\ last' = EnvOp
        /\ thumbCheck' = NoCheck
        /\ UNCHANGED <<dirExists, yamlDir, agg, gz, now, thumbsDir, videosDir,
                       project, pool, gen>>


\* main without --check-only: step 1, step 2 and the verification.  The two
\* steps read and write disjoint files, so what step 2 decides does not
\* depend on what step 1 did.
Steps(args, pipOk, versionOk, ymlOrder, yamlOrder, result) ==
    LET c == IF args.skip_consolidation THEN "-"
             ELSE run_consolidation(args.force, pipOk)
        t == IF args.skip_thumbnails THEN "-"
             ELSE run_thumbnail_generation(args.force, versionOk)
        g == generate_all_thumbnails(result)
        pip == IF c \in {"no-pyyaml", "run"} /\ ~check_python_package
               THEN (IF pipOk THEN "ok" ELSE "failed") ELSE "-"
        thumb == check_thumbnails(TRUE)
    IN  /\ IF c = "run"
           THEN consolidate_metadata(ymlOrder, yamlOrder, TRUE, "ok")
           ELSE /\ last' = EnvOp
                /\ UNCHANGED <<dirExists, yamlDir, agg, gz, now>>
        /\ thumbsDir' = IF t = "run" THEN g.dir ELSE thumbsDir
        /\ project' = [project EXCEPT !.yaml = @ \/ pip = "ok"]
        /\ LET consolidation ==
                   IF c = "run"
                   THEN (IF last'.exit = 0 THEN "ran-ok" ELSE "ran-failed")
                   ELSE c
               thumbnails ==
                   IF t = "run"
                   THEN (IF g.exit = 0 THEN "ran-ok" ELSE "ran-failed")
                   ELSE t
               success ==
                   /\ consolidation \notin {"no-pyyaml", "ran-failed"}
                   /\ thumbnails \notin {"no-ffmpeg", "ran-failed"}
               verified ==
                   IF ~success THEN "-"
                   ELSE IF verify_optimizations(agg', thumbsDir') THEN "ok"
                        ELSE "failed"
           IN  orch' = [op |-> "main", force |-> args.force,
                        check_only |-> args.check_only,
                        skip_consolidation |-> args.skip_consolidation,
                        skip_thumbnails |-> args.skip_thumbnails,
                        json_status |-> IF args.skip_consolidation THEN "-"
                                        ELSE check_consolidated_json(TRUE)[2],
                        thumb_status |-> IF args.skip_thumbnails THEN "-"
                                         ELSE thumb.status,
                        missing_count |->
                            IF args.skip_thumbnails THEN 0
                            ELSE Cardinality(
                                IF "missing_thumbnails" \in DOMAIN thumb.issues
                                THEN thumb.issues["missing_thumbnails"] ELSE {}),
                        consolidation |-> consolidation,
                        thumbnails |-> thumbnails,
                        written |-> IF t = "run" THEN g.written ELSE {},
                        pip |-> pip,
                        verified |-> verified,
                        exit |-> IF success /\ verified = "ok" THEN 0 ELSE 1]
        /\ thumbCheck' = NoCheck
        /\ UNCHANGED <<videosDir, pool, gen>>

\* One run of opti_init.py.
main(args, pipOk, versionOk, ymlOrder, yamlOrder, result) ==
    IF ~project.docs
    THEN NoDocs(args)
    ELSE IF args.check_only
         THEN CheckOnly(args)
         ELSE Steps(args, pipOk, versionOk, ymlOrder, yamlOrder, result)

\* This run of main gets as far as calling check_dependency('ffmpeg') / as
\* starting the thumbnail script.
ChecksFfmpeg(args) ==
    /\ project.docs /\ ~args.check_only /\ ~args.skip_thumbnails
    /\ run_thumbnail_generation(args.force, FALSE) = "no-ffmpeg"

StartsThumbnailScript(args, versionOk) ==
    /\ project.docs /\ ~args.check_only /\ ~args.skip_thumbnails
    /\ run_thumbnail_generation(args.force, versionOk) = "run"

\* pip is run only when PyYAML is missing, `ffmpeg --version` answers only
\* when ffmpeg is installed and asked, and ffmpeg is called on the videos
\* only by a run that starts the thumbnail script.
OptiInit ==
    \E args \in Args,
       pipOk \in (IF check_python_package THEN {TRUE} ELSE BOOLEAN),
       ymlOrder \in Orders(Glob(DOMAIN yamlDir, "yml")),
       yamlOrder \in Orders(Glob(DOMAIN yamlDir, "yaml")) :
        \E versionOk \in (IF project.ffmpeg /\ ChecksFfmpeg(args)
                           THEN BOOLEAN ELSE {FALSE}) :
            \E result \in (IF StartsThumbnailScript(args, versionOk)
                            THEN [VideoGlob(videosDir.files) -> ToolResults]
                            ELSE {[v \in VideoGlob(videosDir.files) |-> "ok"]}) :
                main(args, pipOk, versionOk, ymlOrder, yamlOrder, result)

\* A run of `opti_init.py --skip-consolidation`, with or without --force.
OptiInitThumbnails ==
    \E force \in BOOLEAN :
        \E args \in {[force |-> force, check_only |-> FALSE,
                       skip_consolidation |-> TRUE, skip_thumbnails |-> FALSE]} :
            \E versionOk \in (IF project.ffmpeg /\ ChecksFfmpeg(args)
                               THEN BOOLEAN ELSE {FALSE}) :
                \E result \in (IF StartsThumbnailScript(args, versionOk)
                                THEN [VideoGlob(videosDir.files) -> ToolResults]
                                ELSE {[v \in VideoGlob(videosDir.files) |-> "ok"]}) :
                    main(args, TRUE, versionOk, <<>>, <<>>, result)

\* The host: ffmpeg is installed or removed, PyYAML is uninstalled (it is
\* installed by install_pyyaml), docs is removed with everything in it or
\* created again.
InstallFfmpeg ==
    /\ ~project.ffmpeg
    /\ project' = [project EXCEPT !.ffmpeg = TRUE]
    /\ orch' = NoRun /\ last' = EnvOp /\ thumbCheck' = NoCheck
    /\ UNCHANGED <<dirExists, yamlDir, agg, gz, now, thumbsDir, videosDir, pool, gen>>

RemoveFfmpeg ==
    /\ project.ffmpeg
    /\ project' = [project EXCEPT !.ffmpeg = FALSE]
    /\ orch' = NoRun /\ last' = EnvOp /\ thumbCheck' = NoCheck
    /\ UNCHANGED <<dirExists, yamlDir, agg, gz, now, thumbsDir, videosDir, pool, gen>>

UninstallYaml ==
    /\ project.yaml
    /\ project' = [project EXCEPT !.yaml = FALSE]
    /\ orch' = NoRun /\ last' = EnvOp /\ thumbCheck' = NoCheck
    /\ UNCHANGED <<dirExists, yamlDir, agg, gz, now, thumbsDir, videosDir, pool, gen>>

RemoveDocs ==
    /\ project.docs
    /\ project' = [project EXCEPT !.docs = FALSE]
    /\ dirExists' = FALSE /\ yamlDir' = <<>> /\ agg' = NoFile /\ gz' = NoGz
    /\ thumbsDir' = NoDir /\ videosDir' = NoDir
    /\ orch' = NoRun /\ last' = EnvOp /\ thumbCheck' = NoCheck
    /\ UNCHANGED <<now, pool, gen>>

MakeDocs ==
    /\ ~project.docs
    /\ project' = [project EXCEPT !.docs = TRUE]
    /\ orch' = NoRun /\ last' = EnvOp /\ thumbCheck' = NoCheck
    /\ UNCHANGED <<dirExists, yamlDir, agg, gz, now, thumbsDir, videosDir, pool, gen>>

-----------------------------------------------------------------------------
(***************************************************************************)
(* dataset_generator.py: the prompts of main and DatasetGenerator.generate *)
(***************************************************************************)

\* Largest dataset count whose generation is explored.
GenMaxCount == 3

\* The limits the prompts name.
MaxDatasets == 100000
MaxDepthLimit == 5

\* What the user types at a prompt: nothing, a number, or something else.
Typed(n) == [kind |-> "int", n |-> n]
Nothing == [kind |-> "empty", n |-> 0]
Letters == [kind |-> "text", n |-> 0]

CountInputs ==
    {Nothing, Letters} \cup {Typed(n) : n \in 0..GenMaxCount}
        \cup {Typed(MaxDatasets), Typed(MaxDatasets + 1)}
DepthInputs ==
    {Nothing, Letters} \cup {Typed(n) : n \in 0..(MaxDepthLimit + 1)}

\* get_input: an empty line stands for the default.
get_input(user_input, default) ==
    IF user_input.kind = "empty" THEN Typed(default) ELSE user_input

\* int(...) raises ValueError on anything but a number.
IsNumber(text) == text.kind = "int"

\* The first prompt: main goes on iff the count is a number in 1..100000.
CountAccepted(user_input) ==
    LET text == get_input(user_input, 100)
    IN  IsNumber(text) /\ ~(text.n < 1 \/ text.n > MaxDatasets)

\* One round of the max-depth loop: it breaks iff the depth is a number in
\* 1..5 that is smaller than the dataset count; otherwise it asks again.
DepthAccepted(user_input, num_datasets) ==
    LET text == get_input(user_input, 1)
    IN  /\ IsNumber(text)
        /\ ~(text.n < 1 \/ text.n > MaxDepthLimit)
        /\ ~(text.n >= num_datasets)

\* How one call of generate_video may go: the OpenCV writer opens and the
\* frames are converted by ffmpeg, or the temporary .avi is kept under the
\* .mp4 name, or no file is left at all; or the writer does not open and
\* ffmpeg writes the video directly, or a placeholder file is touched.
VideoOutcomes == {"converted", "kept-avi", "no-file", "direct-ffmpeg", "placeholder"}

\* generate_video: whether <base>.mp4 exists afterwards, and what is
\* returned: os.path.getsize(path) (1 stands for a positive size), 0 when
\* there is no file, and None from the bare return of the fallback path.
generate_video(outcome) ==
    CASE outcome \in {"converted", "kept-avi"} ->
            [file |-> TRUE, ret |-> [none |-> FALSE, size |-> 1]]
      [] outcome = "no-file" ->
            [file |-> FALSE, ret |-> [none |-> FALSE, size |-> 0]]
      [] outcome \in {"direct-ffmpeg", "placeholder"} ->
            [file |-> TRUE, ret |-> [none |-> TRUE, size |-> 0]]

\* What a step of dataset_generator.py leaves alone.
GenFrame ==
    /\ orch' = NoRun /\ last' = EnvOp /\ thumbCheck' = NoCheck
    /\ UNCHANGED <<now, thumbsDir, pool>>

\* main starts and asks for the dataset count (the four prompts that
\* follow fall back to their defaults and cannot end the run).
GenStart(user_input) ==
    /\ gen.pc \in {"idle", "returned", "raised", "done"}
    /\ gen' = IF CountAccepted(user_input)
              THEN [NoGen EXCEPT !.pc = "depth-prompt",
                                 !.num_datasets = get_input(user_input, 100).n]
              ELSE [NoGen EXCEPT !.pc = "returned"]
    /\ UNCHANGED <<dirExists, yamlDir, agg, gz, videosDir, project>>
    /\ GenFrame

\* One round of the max-depth loop.
EnterDepth(user_input) ==
    /\ gen.pc = "depth-prompt"
    /\ gen' = IF DepthAccepted(user_input, gen.num_datasets)
              THEN [gen EXCEPT !.pc = "confirm",
                               !.max_depth = get_input(user_input, 1).n,
                               !.rejected = FALSE]
              ELSE [gen EXCEPT !.rejected = TRUE]
    /\ UNCHANGED <<dirExists, yamlDir, agg, gz, videosDir, project>>
    /\ GenFrame

\* The rest of main up to the loop of generate: the size prompt, the
\* question whether existing data may be overwritten (both directories are
\* then removed), and the two mkdir calls of generate.
GenBegin(sizeOk, overwrite) ==
    /\ gen.pc = "confirm"
    /\ gen.num_datasets <= GenMaxCount
    /\ LET asks == videosDir.exists /\ videosDir.files # {}
           goes == sizeOk /\ (asks => overwrite)
       IN  /\ gen' = IF goes THEN [gen EXCEPT !.pc = "generating"]
                     ELSE [gen EXCEPT !.pc = "returned"]
           /\ project' = IF sizeOk THEN [project EXCEPT !.docs = TRUE] ELSE project
           /\ videosDir' = IF ~goes THEN videosDir
                           ELSE IF asks THEN [exists |-> TRUE, files |-> {}]
                           ELSE [videosDir EXCEPT !.exists = TRUE]
           /\ dirExists' = (dirExists \/ goes)
           /\ yamlDir' = IF goes /\ asks THEN <<>> ELSE yamlDir
           /\ agg' = IF goes /\ asks THEN NoFile ELSE agg
           /\ gz' = IF goes /\ asks THEN NoGz ELSE gz
    /\ GenFrame

\* The base names generate_yml may draw.
GenStems == {"a", "b"}

\* One iteration of the loop of generate: the record file is written, the
\* video is generated, and the running mean is updated with what
\* generate_video returned, which raises TypeError when that is None.
GenIterate(stem, outcome) ==
    /\ gen.pc = "generating"
    /\ gen.i < gen.num_datasets
    /\ LET yml_file == File(stem, "yml")
           video == generate_video(outcome)
       IN  /\ yamlDir' = [g \in DOMAIN yamlDir \cup {yml_file} |->
                             IF g = yml_file THEN [text |-> "doc1", mtime |-> now]
                             ELSE yamlDir[g]]
           /\ videosDir' = IF video.file
                           THEN [videosDir EXCEPT !.files = @ \cup {File(stem, "mp4")}]
                           ELSE videosDir
           /\ gen' = IF video.ret.none
                     THEN [gen EXCEPT !.pc = "raised", !.ret = video.ret]
                     ELSE [gen EXCEPT !.i = @ + 1, !.count = @ + 1,
                                      !.index = Append(@, yml_file),
                                      !.ret = video.ret]
    /\ UNCHANGED <<dirExists, agg, gz, project>>
    /\ GenFrame

\* The loop is over: data_index.json is written with the index.
GenFinish ==
    /\ gen.pc = "generating"
    /\ gen.i = gen.num_datasets
    /\ gen' = [gen EXCEPT !.pc = "done", !.written = TRUE, !.data_index = gen.index]
    /\ UNCHANGED <<dirExists, yamlDir, agg, gz, videosDir, project>>
    /\ GenFrame

-----------------------------------------------------------------------------
Init ==
    /\ dirExists = TRUE
    /\ yamlDir = <<>>
    /\ agg = NoFile
    /\ gz = NoGz
    /\ now = 0
    /\ last = EnvOp
    /\ thumbsDir = NoDir
    /\ videosDir = NoDir
    /\ thumbCheck = NoCheck
    /\ orch = NoRun
    /\ project = [docs |-> TRUE, yaml |-> TRUE, ffmpeg |-> TRUE]
    /\ pool = NoPool
    /\ gen = NoGen

\* The aggregator and its input directory, at one instant of the clock.
Next ==
    \/ ConsolidateRun
    \/ \E f \in RecordFiles, text \in YamlTexts : WriteRecord(f, text)
    \/ \E f \in RecordFiles : DeleteRecord(f)
    \/ RemoveDir
    \/ MakeDir
    \/ Cleanup

Spec == Init /\ [][Next]_vars

\* The freshness checker, the aggregator and the clock; the record texts are
\* one that loads and one that does not.
FreshTexts == {"bad", "doc1"}

NextFresh ==
    \/ CheckJsonCall
    \/ ConsolidateDefault
    \/ \E f \in RecordFiles, text \in FreshTexts : WriteRecord(f, text)
    \/ \E f \in RecordFiles : DeleteRecord(f)
    \/ Cleanup
    \/ Tick

SpecFresh == Init /\ [][NextFresh]_vars

\* The aggregator on a filesystem where writing the .gz may fail.
NextGz ==
    \/ ConsolidateRun
    \/ ConsolidateGzFails
    \/ \E f \in RecordFiles, text \in FreshTexts : WriteRecord(f, text)
    \/ \E f \in RecordFiles : DeleteRecord(f)
    \/ Cleanup

SpecGz == Init /\ [][NextGz]_vars

\* The thumbnail checker and the two directories it reads.
NextThumb ==
    \/ CheckThumbnailsCall
    \/ MakeThumbsDir
    \/ \E f \in ThumbFiles : AddThumbFile(f)
    \/ \E f \in ThumbFiles : RemoveThumbFile(f)
    \/ MakeVideosDir
    \/ RemoveVideosDir
    \/ \E f \in VideoFiles : AddVideo(f)
    \/ \E f \in VideoFiles : RemoveVideo(f)
    \/ Cleanup

SpecThumb == Init /\ [][NextThumb]_vars

\* The orchestrator with the files it checks and the host it runs on: one
\* record file, two videos and their two thumbnails, and a clock that stops
\* at OrchMaxTime.
OrchRecord == File("a", "yml")
OrchThumbs == {File("a", "jpg"), File("b", "jpg")}
OrchVideos == {File("a", "mp4"), File("b", "mp4")}

TickOrch == now < OrchMaxTime /\ Tick

NextOrch ==
    \/ OptiInit
    \/ WriteRecord(OrchRecord, "doc1")
    \/ DeleteRecord(OrchRecord)
    \/ TickOrch
    \/ MakeThumbsDir
    \/ \E f \in OrchThumbs : AddThumbFile(f)
    \/ \E f \in OrchThumbs : RemoveThumbFile(f)
    \/ MakeVideosDir
    \/ \E f \in OrchVideos : AddVideo(f)
    \/ \E f \in OrchVideos : RemoveVideo(f)
    \/ Cleanup
    \/ InstallFfmpeg
    \/ RemoveFfmpeg
    \/ UninstallYaml
    \/ RemoveDocs
    \/ MakeDocs
    \/ MakeDir

SpecOrch == Init /\ [][NextOrch]_vars

\* The thumbnail generator task by task, the orchestrator's thumbnail step,
\* and between two runs the videos, the thumbnails folder and ffmpeg.
PoolVideos == {File("a", "mp4"), File("b", "mp4"), File("d", "webm")}

NextPool ==
    \/ PoolStart
    \/ \E v \in PoolVideos : WorkerTakes(v)
    \/ \E v \in PoolVideos, result \in ToolResults : WorkerFinishes(v, result)
    \/ \E v \in PoolVideos : Collect(v)
    \/ PoolEnd
    \/ pool.pc # "running" /\ OptiInitThumbnails
    \/ pool.pc # "running" /\ MakeVideosDir
    \/ pool.pc # "running" /\ \E f \in PoolVideos : AddVideo(f)
    \/ pool.pc # "running" /\ \E f \in PoolVideos : RemoveVideo(f)
    \/ pool.pc # "running" /\ Cleanup
    \/ pool.pc # "running" /\ InstallFfmpeg
    \/ pool.pc # "running" /\ RemoveFfmpeg

SpecPool == Init /\ [][NextPool]_vars

\* The same, with videos on which ffmpeg may never return.
NextHang ==
    \/ NextPool
    \/ \E v \in PoolVideos : WorkerHangs(v)

SpecHang == Init /\ [][NextHang]_vars

\* The generator alone, over a videos directory that can hold the same
\* recording in two container formats.
StemVideos == {File("a", "mp4"), File("a", "webm"), File("b", "mp4")}

NextStem ==
    \/ PoolStart
    \/ \E v \in StemVideos : WorkerTakes(v)
    \/ \E v \in StemVideos, result \in ToolResults : WorkerFinishes(v, result)
    \/ \E v \in StemVideos : Collect(v)
    \/ PoolEnd
    \/ pool.pc # "running" /\ MakeVideosDir
    \/ pool.pc # "running" /\ \E f \in StemVideos : AddVideo(f)
    \/ pool.pc # "running" /\ \E f \in StemVideos : RemoveVideo(f)
    \/ pool.pc # "running" /\ Cleanup

SpecStem == Init /\ [][NextStem]_vars

\* The dataset generator, run again and again.
NextGen ==
    \/ \E user_input \in CountInputs : GenStart(user_input)
    \/ \E user_input \in DepthInputs : EnterDepth(user_input)
    \/ \E sizeOk \in BOOLEAN, overwrite \in BOOLEAN : GenBegin(sizeOk, overwrite)
    \/ \E stem \in GenStems, outcome \in VideoOutcomes : GenIterate(stem, outcome)
    \/ GenFinish

SpecGen == Init /\ [][NextGen]_vars

-----------------------------------------------------------------------------
(***************************************************************************)
(* Properties of the aggregator (checked under Spec)                       *)
(***************************************************************************)

\* Reading an encoded aggregate back: its entries, in document order.
JsonLoad(bytes) ==
    [i \in 1..(Len(bytes) \div 4) |-> [k |-> bytes[4 * i - 2], v |-> bytes[4 * i]]]

Entries == JsonLoad(agg.bytes)
EntryKeys == {Entries[i].k : i \in 1..Len(Entries)}

Present == DOMAIN yamlDir
Parsable(f) == LoadYamlFile(yamlDir[f].text) # None
ParsableFiles == {f \in Present : Parsable(f)}
UnparsableFiles == {f \in Present : ~Parsable(f)}
StemsOf(S) == {Stem(f) : f \in S}
DistinctStems(S) == \A f, g \in S : Stem(f) = Stem(g) => f = g

\* The state is the one a run of consolidate_metadata has just left (in Spec
\* every other operation resets `last`, and a run does not touch yamlDir).
JustRan == last.op = "consolidate"

\* C1 as stated: N >= 1 record files that all load give an aggregate of
\* exactly N entries and zero failures.
C1_Original ==
    (JustRan /\ Present # {} /\ UnparsableFiles = {})
        => /\ last.exit = 0
           /\ agg.exists
           /\ Len(Entries) = Cardinality(Present)
           /\ last.failed = 0

\* C1 amended: N >= 1 record files that all load give zero failures and an
\* aggregate with one entry per distinct stem: exactly N entries when the
\* stems are pairwise distinct, fewer when a.yml and a.yaml share one.
C1_AllValid ==
    (JustRan /\ Present # {} /\ UnparsableFiles = {})
        => /\ last.exit = 0
           /\ agg.exists
           /\ Len(Entries) = Cardinality(StemsOf(Present))
           /\ last.loaded = Len(Entries)
           /\ (DistinctStems(Present) => Len(Entries) = Cardinality(Present))
           /\ last.failed = 0

C1_Witness ==
    /\ JustRan /\ UnparsableFiles = {} /\ DistinctStems(Present)
    /\ Cardinality(Present) = 2 /\ Len(Entries) = 2 /\ last.failed = 0

\* C2 as stated: M parsable and K unparsable files give exactly M entries,
\* K failures, and exit 0 with the artifact written whenever M >= 1.
C2_Original ==
    (JustRan /\ Present # {})
        => /\ agg.exists
           /\ Len(Entries) = Cardinality(ParsableFiles)
           /\ last.failed = Cardinality(UnparsableFiles)
           /\ (ParsableFiles # {} => last.exit = 0)

\* C2 amended: M parsable and K unparsable files (M + K >= 1) give K
\* failures and one entry per distinct stem among the parsable files (M
\* entries when those stems are pairwise distinct); whenever M >= 1 the run
\* exits 0 with the artifact written.
C2_Mixed ==
    (JustRan /\ Present # {})
        => /\ agg.exists
           /\ Len(Entries) = Cardinality(StemsOf(ParsableFiles))
           /\ (DistinctStems(ParsableFiles)
                   => Len(Entries) = Cardinality(ParsableFiles))
           /\ last.failed = Cardinality(UnparsableFiles)
           /\ (ParsableFiles # {} => last.exit = 0)

C2_Witness ==
    /\ JustRan /\ last.exit = 0
    /\ Cardinality(ParsableFiles) = 2 /\ Cardinality(UnparsableFiles) = 1
    /\ last.failed = 1

\* C3: a run that finds zero record files exits nonzero and writes nothing:
\* the aggregate and its .gz sibling are exactly what they were, present or
\* absent.
C3_EmptyInput ==
    [][(ConsolidateRun /\ Present = {})
          => (last'.exit = 1 /\ agg' = agg /\ gz' = gz)]_vars

C3_Witness ==
    /\ JustRan /\ last.exit = 1 /\ dirExists /\ Present = {}
    /\ agg.exists /\ Len(Entries) >= 1

\* C4 as stated: a run that reaches the write step never writes an aggregate
\* with no entries, also when every record file fails to parse.
C4_NeverEmpty ==
    (JustRan /\ last.exit = 0) => Len(Entries) >= 1

\* C5 as stated: every key of the written aggregate is the stem of exactly
\* one record file present during the run.
C5_Original ==
    (JustRan /\ last.exit = 0)
        => \A key \in EntryKeys : Cardinality({f \in Present : Stem(f) = key}) = 1

\* C5 amended: every key of the written aggregate is the stem of at least
\* one record file that was present during the run and loaded (of exactly
\* one when the stems are pairwise distinct), and no key occurs twice.
C5_KeysHaveSources ==
    (JustRan /\ last.exit = 0)
        => /\ \A key \in EntryKeys : \E f \in ParsableFiles : Stem(f) = key
           /\ \A i, j \in 1..Len(Entries) : Entries[i].k = Entries[j].k => i = j
           /\ (DistinctStems(Present)
                  => \A key \in EntryKeys :
                        Cardinality({f \in Present : Stem(f) = key}) = 1)

C5_Witness ==
    /\ JustRan /\ last.exit = 0
    /\ EntryKeys = {"a", "b"} /\ ~DistinctStems(Present) /\ UnparsableFiles # {}

\* C6 as stated: a second run on an unchanged source directory writes the
\* same encoded content as the first, whatever order the scans return.
C6_Idempotent ==
    [][(JustRan /\ last.exit = 0 /\ agg.exists /\ ConsolidateRun)
          => agg'.bytes = agg.bytes]_vars

-----------------------------------------------------------------------------
(***************************************************************************)
(* Properties of check_consolidated_json (checked under SpecFresh)         *)
(***************************************************************************)

\* The state is the one a call of check_consolidated_json has just left (the
\* clock may have advanced since; no file has changed).
JustCheckedJson == last.op = "check_json"

NewerSources == {f \in Present : yamlDir[f].mtime > agg.mtime}

ExpectedJsonVerdict ==
    IF ~agg.exists THEN "missing"
    ELSE IF NewerSources # {} THEN "stale"
    ELSE "ok"

\* C7: the verdict is 'missing' iff the aggregate file is absent, otherwise
\* 'stale' iff some current record file has a modification time strictly
\* later than the aggregate's, otherwise 'ok' (also with zero records); and
\* a step that leaves the aggregate alone and gives some record file a later
\* modification time turns an 'ok' into 'stale'.
C7_Verdict ==
    /\ [](JustCheckedJson
            => /\ last.status = ExpectedJsonVerdict
               /\ last.exists = agg.exists
               /\ (last.status = "missing" <=> ~agg.exists)
               /\ (last.status = "stale" <=> (agg.exists /\ NewerSources # {}))
               /\ (last.status = "ok" <=> (agg.exists /\ NewerSources = {})))
    /\ [][(/\ check_consolidated_json(TRUE)[2] = "ok"
            /\ agg' = agg
            /\ \E f \in DOMAIN yamlDir' : yamlDir'[f].mtime > agg.mtime)
              => (check_consolidated_json(TRUE)[2])' = "stale"]_vars

C7_Witness ==
    /\ JustCheckedJson /\ last.status = "stale"
    /\ Cardinality(Present) >= 2 /\ Present \ NewerSources # {}

\* C8 as stated: whenever the verdict is 'ok' and at least one record file
\* exists, the aggregate's keys are the stems of the current parsable
\* record files.
C8_OkMeansCurrent ==
    (JustCheckedJson /\ last.status = "ok" /\ Present # {})
        => EntryKeys = StemsOf(ParsableFiles)

-----------------------------------------------------------------------------
(***************************************************************************)
(* Properties of check_thumbnails (checked under SpecThumb)                *)
(***************************************************************************)

\* The state is the one a call of check_thumbnails has just left.
JustCheckedThumbs == thumbCheck.status # "-"

\* What the call reported under a key of the issues dict.
Reported(key) ==
    IF key \in DOMAIN thumbCheck.issues THEN thumbCheck.issues[key] ELSE {}

\* D: the stems of the derived (.jpg) files; S: the stems of the source
\* (.mp4) videos, none when there is no videos directory.
DerivedStems == StemsOf(Glob(thumbsDir.files, "jpg"))
SourceStems == StemsOf(Glob(videosDir.files, "mp4"))

\* C9: the verdict is 'missing' iff the thumbnails directory does not exist
\* and 'empty' iff it exists and holds no .jpg file; in both cases no
\* missing or orphaned identifier is reported.
C9_MissingEmpty ==
    JustCheckedThumbs
        => /\ (thumbCheck.status = "missing" <=> ~thumbsDir.exists)
           /\ (thumbCheck.status = "empty"
                  <=> (thumbsDir.exists /\ Glob(thumbsDir.files, "jpg") = {}))
           /\ (thumbCheck.status \in {"missing", "empty"}
                  => /\ thumbCheck.issues = <<>>
                     /\ Reported("missing_thumbnails") = {}
                     /\ Reported("orphaned_thumbnails") = {}
                     /\ ~thumbCheck.exists)

C9_Witness ==
    /\ JustCheckedThumbs /\ thumbCheck.status = "empty"
    /\ thumbsDir.files # {} /\ SourceStems # {}

\* C10 amended: when the videos directory exists, with S the stems of its
\* .mp4 files and D the non-empty set of thumbnail stems, the reported
\* missing identifiers are S \ D and the reported orphaned identifiers are
\* D \ S, and the verdict is 'incomplete' unless both are empty; when the
\* videos directory does not exist, nothing is reported and the verdict is
\* 'ok'.
C10_SetsWhenVideosExist ==
    (JustCheckedThumbs /\ DerivedStems # {})
        => IF videosDir.exists
           THEN /\ Reported("missing_thumbnails") = SourceStems \ DerivedStems
                /\ Reported("orphaned_thumbnails") = DerivedStems \ SourceStems
                /\ thumbCheck.status =
                      IF SourceStems = DerivedStems THEN "ok" ELSE "incomplete"
           ELSE /\ thumbCheck.issues = <<>>
                /\ thumbCheck.status = "ok"

C10_Witness ==
    /\ JustCheckedThumbs /\ thumbCheck.status = "incomplete"
    /\ SourceStems = {"a", "b", "c"} /\ DerivedStems = {"a", "b", "d"}
    /\ Reported("missing_thumbnails") = {"c"}
    /\ Reported("orphaned_thumbnails") = {"d"}

\* C10 as stated: for every set S of source video stems and every non-empty
\* set D of thumbnail stems, the reported missing identifiers are S \ D and
\* the reported orphaned identifiers are D \ S.
C10_Sets ==
    (JustCheckedThumbs /\ DerivedStems # {})
        => /\ Reported("missing_thumbnails") = SourceStems \ DerivedStems
           /\ Reported("orphaned_thumbnails") = DerivedStems \ SourceStems

\* The missing set (source stems without a thumbnail) and the orphaned set
\* (thumbnail stems without a current source).
MissingSet == SourceStems \ DerivedStems
OrphanedSet == DerivedStems \ SourceStems

\* C11 as stated: whenever the thumbnails directory holds a .jpg file, the
\* verdict is 'ok' iff the missing set and the orphaned set are both empty
\* and 'incomplete' otherwise, also when there is no videos directory.
C11_OkIff ==
    (JustCheckedThumbs /\ DerivedStems # {})
        => /\ (thumbCheck.status = "ok" <=> (MissingSet = {} /\ OrphanedSet = {}))
           /\ (thumbCheck.status = "incomplete"
                  <=> ~(MissingSet = {} /\ OrphanedSet = {}))

\* C11 amended: whenever the thumbnails directory holds a .jpg file and the
\* videos directory exists (with or without videos in it), the verdict is
\* 'ok' iff the missing set and the orphaned set are both empty and
\* 'incomplete' otherwise; when the videos directory does not exist the
\* verdict is 'ok', whatever the thumbnails are.
C11_OkIffWhenVideosExist ==
    (JustCheckedThumbs /\ DerivedStems # {})
        => /\ thumbCheck.status \in {"ok", "incomplete"}
           /\ videosDir.exists
                => (thumbCheck.status = "ok"
                       <=> (MissingSet = {} /\ OrphanedSet = {}))
           /\ ~videosDir.exists => thumbCheck.status = "ok"

\* An existing videos directory without a video: every thumbnail is orphaned.
C11_Witness ==
    /\ JustCheckedThumbs /\ thumbCheck.status = "incomplete"
    /\ videosDir.exists /\ videosDir.files = {}
    /\ MissingSet = {} /\ OrphanedSet = {"a", "b"}

-----------------------------------------------------------------------------
(***************************************************************************)
(* Properties of the orchestrator (checked under SpecOrch)                 *)
(***************************************************************************)

\* The state is the one a run of opti_init.py has just left; a normal run is
\* one without --check-only that found docs (a run that does not find docs
\* leaves it missing).  Every other operation resets orch, except the tick
\* of the clock, which changes no file.
JustOrchestrated == orch.op = "main"
NormalRun == JustOrchestrated /\ ~orch.check_only /\ project.docs

\* What a step did: it was skipped as up to date, or it went on to the
\* dependency check (and, the dependency being there, started the script).
ConsolidationSkipped == orch.consolidation = "up-to-date"
ConsolidationProceeded ==
    /\ orch.consolidation \in {"no-pyyaml", "ran-ok", "ran-failed"}
    /\ orch.consolidation = "no-pyyaml" <=> orch.pip = "failed"
ThumbnailsSkipped == orch.thumbnails \in {"up-to-date", "all-have"}
ThumbnailsProceeded == orch.thumbnails \in {"no-ffmpeg", "ran-ok", "ran-failed"}

\* C12: in a normal run without --force, a step whose verdict is 'ok' does
\* not start its generator and reports success; such a run leaves the
\* artifact that was 'ok' as it found it.
C12_OkIsSkipped ==
    /\ [](NormalRun /\ ~orch.force
            => /\ (~orch.skip_consolidation /\ orch.json_status = "ok")
                      => ConsolidationSkipped
               /\ (~orch.skip_thumbnails /\ orch.thumb_status = "ok")
                      => orch.thumbnails = "up-to-date")
    /\ [][(orch'.op = "main" /\ ~orch'.check_only /\ ~orch'.force)
            => /\ orch'.json_status = "ok" => (agg' = agg /\ gz' = gz)
               /\ orch'.thumb_status = "ok" => thumbsDir' = thumbsDir]_vars

C12_Witness ==
    /\ NormalRun /\ ~orch.force
    /\ ~orch.skip_consolidation /\ ~orch.skip_thumbnails
    /\ orch.json_status = "ok" /\ orch.thumb_status = "ok"
    /\ ConsolidationSkipped /\ orch.thumbnails = "up-to-date"
    /\ orch.exit = 0

\* C13 as stated: with --force, every step that is not skipped goes on to
\* the dependency check and the generator, whatever its verdict is.
C13_ForceRegenerates ==
    (NormalRun /\ orch.force)
        => /\ ~orch.skip_consolidation => ConsolidationProceeded
           /\ ~orch.skip_thumbnails => ThumbnailsProceeded

\* C14 as stated: in a normal run every verdict other than 'ok' makes the
\* step go on to the generator.
C14_NotOkRegenerates ==
    NormalRun
        => /\ (~orch.skip_consolidation /\ orch.json_status # "ok")
                  => ConsolidationProceeded
           /\ (~orch.skip_thumbnails /\ orch.thumb_status # "ok")
                  => ThumbnailsProceeded

\* C14 amended: in a normal run the verdicts 'missing', 'empty' and 'stale',
\* and 'incomplete' with at least one missing thumbnail, make the step go
\* on to the generator; 'incomplete' with orphaned thumbnails only makes
\* the thumbnail step return success without starting the generator.
C14_MissingRegenerates ==
    NormalRun
        => /\ (~orch.skip_consolidation /\ orch.json_status # "ok")
                  => ConsolidationProceeded
           /\ (~orch.skip_thumbnails /\ orch.thumb_status \in {"missing", "empty"})
                  => ThumbnailsProceeded
           /\ (~orch.skip_thumbnails /\ orch.thumb_status = "incomplete")
                  => IF orch.missing_count > 0
                     THEN ThumbnailsProceeded
                     ELSE orch.thumbnails = "all-have"

C14_Witness ==
    /\ NormalRun /\ ~orch.force
    /\ orch.json_status = "stale" /\ orch.consolidation = "ran-ok"
    /\ orch.thumb_status = "incomplete" /\ orch.missing_count = 1
    /\ orch.thumbnails = "ran-ok"
    /\ thumbsDir.files = OrchThumbs

\* C15: a run with --check-only, whatever the other flags and the verdicts
\* are, changes no file and no installed package and starts no generator;
\* it evaluates both verdicts (when it finds docs).
C15_CheckOnlyFrame ==
    [][(orch'.op = "main" /\ orch'.check_only)
        => /\ UNCHANGED <<dirExists, yamlDir, agg, gz, thumbsDir, videosDir, project>>
           /\ orch'.consolidation = "-" /\ orch'.thumbnails = "-"
           /\ orch'.pip = "-" /\ orch'.verified = "-"
           /\ orch'.json_status = check_consolidated_json(TRUE)[2]
           /\ orch'.thumb_status = check_thumbnails(TRUE).status]_vars

\* A check-only run that found work a normal run would have done: a stale
\* aggregate, a missing thumbnail, PyYAML not installed.
C15_Witness ==
    /\ JustOrchestrated /\ orch.check_only
    /\ orch.json_status = "stale"
    /\ orch.thumb_status = "incomplete" /\ orch.missing_count = 1
    /\ ~project.yaml
    /\ orch.exit = 0

\* Which steps of the most recent run failed, and what the verification
\* finds in the files the run left.
ConsolidationFailed == orch.consolidation \in {"no-pyyaml", "ran-failed"}
ThumbnailsFailed == orch.thumbnails \in {"no-ffmpeg", "ran-failed"}
VerificationFails ==
    ~(agg.exists /\ thumbsDir.exists /\ Glob(thumbsDir.files, "jpg") # {})

\* C16: in a normal run with no step skipped the thumbnail step is entered
\* whether the consolidation step succeeded or failed, and the exit code is
\* nonzero iff a step failed or the final verification failed.
C16_StepsIndependent ==
    (NormalRun /\ ~orch.skip_consolidation /\ ~orch.skip_thumbnails)
        => /\ orch.consolidation # "-"
           /\ orch.thumbnails # "-" /\ orch.thumb_status # "-"
           /\ orch.exit \in {0, 1}
           /\ orch.exit # 0
                 <=> (ConsolidationFailed \/ ThumbnailsFailed \/ VerificationFails)

\* The consolidation failed and the thumbnails were generated all the same.
C16_Witness ==
    /\ NormalRun /\ ~orch.skip_consolidation /\ ~orch.skip_thumbnails
    /\ orch.consolidation = "ran-failed"
    /\ orch.thumb_status = "missing" /\ orch.thumbnails = "ran-ok"
    /\ thumbsDir.files = OrchThumbs
    /\ orch.exit = 1

\* C17 as stated: after a normal run with no step skipped has returned 0, a
\* run without --force started on the files as they are finds both verdicts
\* 'ok' and starts neither generator.
C17_Converges ==
    (NormalRun /\ ~orch.skip_consolidation /\ ~orch.skip_thumbnails /\ orch.exit = 0)
        => /\ check_consolidated_json(TRUE)[2] = "ok"
           /\ check_thumbnails(TRUE).status = "ok"
           /\ \A pipOk \in BOOLEAN : run_consolidation(FALSE, pipOk) = "up-to-date"
           /\ \A versionOk \in BOOLEAN :
                  run_thumbnail_generation(FALSE, versionOk) = "up-to-date"

-----------------------------------------------------------------------------
(***************************************************************************)
(* The aggregator when the .gz cannot be written (checked under SpecGz)    *)
(***************************************************************************)

\* C18 as stated: when compression is on and writing the .gz fails, the run
\* still ends as a success, with the aggregate written and valid.
C18_GzFailureTolerated ==
    (JustRan /\ last.gzip = "failed")
        => /\ agg.exists
           /\ EntryKeys = StemsOf(ParsableFiles)
           /\ last.exit = 0

\* The part of C18 the code does keep: the aggregate written before the
\* failed .gz write stays, complete.
C18_PrimaryStays ==
    (JustRan /\ last.gzip = "failed")
        => /\ agg.exists
           /\ EntryKeys = StemsOf(ParsableFiles)
           /\ last.exit = 1

-----------------------------------------------------------------------------
(***************************************************************************)
(* Properties of the thumbnail generator (checked under SpecPool)          *)
(***************************************************************************)

\* C19: without ffmpeg, a run of generate_all_thumbnails ends with exit
\* status 1 at its start, with no task submitted and no thumbnail written,
\* and a thumbnail step of the
\* orchestrator that is not skipped as up to date returns failure without
\* starting the thumbnail script, leaving the thumbnails as they are.
C19_NoFfmpeg ==
    /\ [][(pool.pc # "running" /\ pool' # pool /\ ~project.ffmpeg)
            => /\ pool'.pc = "exited" /\ pool'.exit = 1
               /\ pool'.tasks = {}
               /\ thumbsDir' = thumbsDir]_vars
    /\ [][(orch'.op = "main" /\ ~orch'.check_only /\ ~orch'.skip_thumbnails
            /\ project.docs /\ ~project.ffmpeg)
            => /\ orch'.thumbnails \in {"up-to-date", "all-have", "no-ffmpeg"}
               /\ orch'.thumbnails = "no-ffmpeg" => orch'.exit = 1
               /\ thumbsDir' = thumbsDir]_vars

\* Videos are there and ffmpeg is not: the script has exited with 1 and the
\* orchestrator's thumbnail step has failed, with no thumbnail anywhere.
C19_Witness ==
    /\ ~project.ffmpeg
    /\ VideoGlob(videosDir.files) = PoolVideos
    /\ pool.pc = "exited" /\ pool.exit = 1
    /\ NormalRun /\ orch.thumb_status = "missing" /\ orch.thumbnails = "no-ffmpeg"
    /\ ~thumbsDir.exists

\* The results the workers have produced so far.
Executed == {v \in pool.tasks : pool.task[v] \in ToolResults}
Succeeded == {v \in pool.tasks : pool.task[v] = "ok"}

\* A running batch is never stuck: a queued task can be taken, a started
\* one can finish, a finished one can be counted, or the batch can end.
PoolCanStep ==
    \/ \E v \in pool.tasks : pool.task[v] = "queued" /\ Cardinality(Running) < max_workers
    \/ Running # {}
    \/ Executed \ pool.collected # {}
    \/ pool.collected = pool.tasks

-----------------------------------------------------------------------------
(***************************************************************************)
(* The thumbnail generator when ffmpeg may hang (checked under SpecHang)   *)
(***************************************************************************)

\* The tasks whose ffmpeg call will not return on its own.
Hung == {v \in pool.tasks : pool.task[v] = "hung"}

\* C21 as stated: every ffmpeg call is bounded, so a running batch can
\* always go on towards its end: whenever it has not ended, a queued task
\* can be taken by a free worker, a started call can return, a finished
\* task can be counted or the batch can end; an unreturned call does not
\* hold its worker for ever.
C21_BatchGoesOn ==
    pool.pc = "running"
        => \/ \E v \in pool.tasks :
                 pool.task[v] = "queued" /\ Cardinality(Busy) < max_workers
           \/ Running # {}
           \/ Executed \ pool.collected # {}
           \/ pool.collected = pool.tasks

-----------------------------------------------------------------------------
(***************************************************************************)
(* Output paths of a batch (checked under SpecStem)                        *)
(***************************************************************************)

\* The files a batch writes when every task succeeds.
OutputPaths == {ThumbnailName(v) : v \in pool.tasks}

\* C22 as stated: distinct tasks of a batch have distinct output paths, no
\* two workers that are running at the same time write the same file, and
\* a batch of T videos whose tasks all succeeded has written T files.
C22_DistinctOutputs ==
    /\ \A v, w \in pool.tasks : v # w => ThumbnailName(v) # ThumbnailName(w)
    /\ \A v, w \in Running : v # w => ThumbnailName(v) # ThumbnailName(w)
    /\ (pool.pc = "exited" /\ pool.exit = 0 /\ Succeeded = pool.tasks)
          => /\ OutputPaths \subseteq thumbsDir.files
             /\ Cardinality(OutputPaths) = Cardinality(pool.tasks)

-----------------------------------------------------------------------------
(***************************************************************************)
(* Failed loads and shared stems in the aggregate (checked under Spec)     *)
(***************************************************************************)

\* The payload stored under a key of the aggregate.
EntryOf(key) == (CHOOSE i \in 1..Len(Entries) : Entries[i].k = key)

\* C23: no aggregate on disk has a key with a null payload; a run over at
\* least one record file counts one failure for each file whose load gave
\* no data (a YAML error or an empty document), and every entry it writes
\* is the payload of a file with that stem that did load.
C23_NeverNull ==
    /\ agg.exists => \A i \in 1..Len(Entries) : Entries[i].v # None
    /\ (JustRan /\ Present # {})
          => /\ last.failed = Cardinality(UnparsableFiles)
             /\ \A i \in 1..Len(Entries) :
                   \E f \in ParsableFiles :
                       /\ Stem(f) = Entries[i].k
                       /\ LoadYamlFile(yamlDir[f].text) = Entries[i].v
             /\ \A f \in UnparsableFiles :
                   Stem(f) \in EntryKeys
                       => \E g \in ParsableFiles : Stem(g) = Stem(f)

\* A run over an empty document, a document with a YAML error and a valid
\* one: two failures, one entry.
C23_Witness ==
    /\ JustRan /\ Cardinality(Present) = 3
    /\ \E f, g \in Present : yamlDir[f].text = "empty" /\ yamlDir[g].text = "bad"
    /\ last.failed = 2 /\ Len(Entries) = 1
    /\ Entries[1].v \in {"data1", "data2"}

\* C24: when a.yml and a.yaml both load, the aggregate has one entry for
\* the stem and it holds the payload of a.yaml, which consolidate_metadata
\* enumerates after every .yml file; the overwritten file is not a failure
\* and the run exits 0.
C24_LaterWins ==
    \A f \in Glob(Present, "yml"), g \in Glob(Present, "yaml") :
        (JustRan /\ Stem(f) = Stem(g) /\ Parsable(f) /\ Parsable(g))
            => /\ agg.exists
               /\ Cardinality({i \in 1..Len(Entries) : Entries[i].k = Stem(g)}) = 1
               /\ Entries[EntryOf(Stem(g))].v = LoadYamlFile(yamlDir[g].text)
               /\ last.failed = Cardinality(UnparsableFiles)
               /\ last.loaded = Cardinality(StemsOf(ParsableFiles))
               /\ last.exit = 0

\* a.yml and a.yaml hold different payloads and the aggregate has a.yaml's.
C24_Witness ==
    /\ JustRan /\ last.exit = 0 /\ last.failed = 0
    /\ File("a", "yml") \in Present /\ File("a", "yaml") \in Present
    /\ yamlDir[File("a", "yml")].text = "doc1"
    /\ yamlDir[File("a", "yaml")].text = "doc2"
    /\ Len(Entries) = 1 /\ Entries[1].k = "a" /\ Entries[1].v = "data2"

-----------------------------------------------------------------------------
(***************************************************************************)
(* What a regeneration writes (checked under SpecOrch)                     *)
(***************************************************************************)

\* The step is a normal run of opti_init.py that found the thumbnails
\* 'incomplete' with at least one missing and ran the thumbnail script.
RegeneratesIncomplete ==
    /\ orch'.op = "main" /\ ~orch'.check_only /\ ~orch'.skip_thumbnails
    /\ orch'.thumb_status = "incomplete" /\ orch'.missing_count > 0
    /\ orch'.thumbnails = "ran-ok"

-----------------------------------------------------------------------------
(***************************************************************************)
(* Exit codes of the orchestrator (checked under SpecOrch)                 *)
(***************************************************************************)

\* What the two steps of a normal run returned to main.
ConsolidationReturnedTrue == orch.consolidation \in {"-", "up-to-date", "ran-ok"}
ThumbnailsReturnedTrue == orch.thumbnails \in {"-", "up-to-date", "all-have", "ran-ok"}

\* Both artifacts are there when the run ends: the aggregate exists and the
\* thumbnails directory holds a .jpg file.
BothArtifacts ==
    agg.exists /\ thumbsDir.exists /\ Glob(thumbsDir.files, "jpg") # {}

\* C26: a normal run returns 0 iff no step that was run returned failure
\* and both artifacts are there in the end, otherwise 1; a step is run iff
\* it is not skipped on the command line, and the verification of both
\* artifacts is made whenever no step failed, also for a skipped kind.
C26_ExitCode ==
    NormalRun
        => /\ orch.exit \in {0, 1}
           /\ orch.exit = 0
                 <=> (ConsolidationReturnedTrue /\ ThumbnailsReturnedTrue
                        /\ BothArtifacts)
           /\ orch.skip_consolidation <=> orch.consolidation = "-"
           /\ orch.skip_thumbnails <=> orch.thumbnails = "-"
           /\ orch.verified # "-"
                 <=> (ConsolidationReturnedTrue /\ ThumbnailsReturnedTrue)
           /\ orch.verified = "ok" => BothArtifacts
           /\ orch.verified = "failed" => ~BothArtifacts

\* A run with --skip-thumbnails whose consolidation succeeded returns 1
\* because there is no thumbnail.
C26_Witness ==
    /\ NormalRun /\ orch.skip_thumbnails /\ ~orch.skip_consolidation
    /\ orch.consolidation = "ran-ok" /\ agg.exists
    /\ Glob(thumbsDir.files, "jpg") = {}
    /\ orch.verified = "failed" /\ orch.exit = 1

\* The state is the one a run with --check-only has just left.
CheckOnlyRun == JustOrchestrated /\ orch.check_only /\ project.docs

\* C27 as stated: a run with --check-only returns 1 exactly when the
\* aggregate is 'missing' or the thumbnails are 'missing' or 'empty', and 0
\* otherwise.
C27_CheckOnlyExit ==
    CheckOnlyRun
        => /\ orch.exit \in {0, 1}
           /\ orch.exit = 1
                 <=> \/ orch.json_status = "missing"
                     \/ orch.thumb_status \in {"missing", "empty"}

-----------------------------------------------------------------------------
(***************************************************************************)
(* The generator against the checker (checked under SpecPool)              *)
(***************************************************************************)

\* The state is the one left by a batch over the current videos in which
\* every task succeeded and which found no other file in the thumbnails
\* directory.
CleanBatchDone ==
    /\ pool.pc = "exited" /\ pool.exit = 0
    /\ pool.tasks = VideoGlob(videosDir.files)
    /\ Succeeded = pool.tasks
    /\ thumbsDir.files = {ThumbnailName(v) : v \in pool.tasks}

\* C28 as stated: after such a batch check_thumbnails returns 'ok' and
\* reports no missing and no orphaned thumbnail.
C28_CheckerAgrees ==
    CleanBatchDone
        => LET thumb == check_thumbnails(TRUE)
           IN  /\ thumb.exists
               /\ thumb.status = "ok"
               /\ \A key \in DOMAIN thumb.issues : thumb.issues[key] = {}

-----------------------------------------------------------------------------
(***************************************************************************)
(* The dataset generator (checked under SpecGen)                           *)
(***************************************************************************)

\* C29 as stated: whenever main is at the max-depth prompt (the count has
\* been accepted), some depth in 1..5 is accepted, and so are the depth 1
\* and the empty line that stands for it.
C29_DepthLoopCanEnd ==
    gen.pc = "depth-prompt"
        => /\ \E d \in 1..MaxDepthLimit : DepthAccepted(Typed(d), gen.num_datasets)
           /\ DepthAccepted(Typed(1), gen.num_datasets)
           /\ DepthAccepted(Nothing, gen.num_datasets)

\* C30 as stated: every call of generate_video returns an integer, the
\* update of the running mean never raises, and a generation that has
\* ended has written data_index.json with num entries.
C30_ReturnsSize ==
    /\ ~gen.ret.none /\ gen.ret.size >= 0
    /\ gen.pc # "raised"
    /\ gen.pc = "done"
          => gen.written /\ Len(gen.data_index) = gen.num_datasets

=============================================================================
